---- MODULE Spec2Model ----
(***************************************************************************)
(* State-machine model of the kitchenAI recipe backend.                    *)
(*                                                                         *)
(* Two revisions of the server are modelled, selected by `variant`:        *)
(*   "guarded"  - src/server.js lines 168-366: rate limiter, JWT auth,     *)
(*                phone login, single-stage LangGraph pipeline.            *)
(*   "twoStage" - src/unnamed/part_000: no auth, two-stage LangGraph       *)
(*                pipeline (categorize -> generate_recipe).                *)
(* Lines 1-167 of src/server.js hold an earlier revision of the guarded    *)
(* server that calls the model without a graph; it is not modelled.        *)
(*                                                                         *)
(* JavaScript values are modelled as tuples of one-character strings;      *)
(* undefined, null and non-string values are the distinguished tuples      *)
(* Undefined, Null and NonString.  A request handler runs atomically from  *)
(* one `await` to the next (the event loop's run-to-completion), so every  *)
(* action below is one such segment.                                       *)
(***************************************************************************)
EXTENDS Integers, Sequences, FiniteSets, TLC

VARIABLES
    variant,    \* which revision of the server is running
    users,      \* the User collection
    requests,   \* the RecipeRequest collection, in creation order
    hits,       \* rate limiter: requests counted per client address
    resetTime,  \* rate limiter: end of the current window per client address
    now,        \* wall clock, in minutes
    ticks,      \* number of clock advances so far
    issued,     \* tokens handed to clients by successful logins
    nextId,     \* next fresh ObjectId
    started,    \* number of requests received so far
    req         \* the in-flight / last request of each connection slot

vars == <<variant, users, requests, hits, resetTime, now, ticks, issued,
          nextId, started, req>>

------------------------------------------------------------------------------
(* Bounds of the model *)

MaxLogins == 3
MaxRuns == 3
MaxCalls == 5
MaxBurst == 3
MaxTicks == 2

(* Program constants *)

max == 100
windowMin == 15
expiresInMin == 120
historyLimit == 10

------------------------------------------------------------------------------
(* JavaScript values *)

Undefined == <<"undefined">>
Null == <<"null">>
NonString == <<"object">>
ModelThrows == <<"throw">>

IsString(v) == v \notin {Undefined, Null, NonString}

(* JS truthiness: undefined, null and "" are falsy; objects are truthy. *)
Truthy(v) == v \notin {Undefined, Null, <<>>}

Digits == {"0", "1", "2", "3", "4", "5", "6", "7", "8", "9"}

RECURSIVE TrimStart(_)
TrimStart(s) ==
    IF s = <<>> THEN s
    ELSE IF Head(s) = " " THEN TrimStart(Tail(s)) ELSE s

RECURSIVE TrimEnd(_)
TrimEnd(s) ==
    IF s = <<>> THEN s
    ELSE IF s[Len(s)] = " " THEN TrimEnd(SubSeq(s, 1, Len(s) - 1)) ELSE s

(* String.prototype.trim *)
Trim(s) == TrimEnd(TrimStart(s))

(* const isValidPhone = (phone) => /^\d{10}$/.test(phone) *)
isValidPhone(phone) ==
    /\ IsString(phone)
    /\ Len(phone) = 10
    /\ \A i \in 1..Len(phone) : phone[i] \in Digits

------------------------------------------------------------------------------
(* Inputs the environment may send *)

Slots == {1, 2}
Addrs == {"ip1", "ip2"}

P1 == <<"9", "8", "7", "6", "5", "4", "3", "2", "1", "0">>
P2 == <<"9", "8", "7", "6", "5", "4", "3", "2", "1", "1">>
ShortPhone == <<"9", "8", "7", "6", "5", "4", "3", "2", "1">>

PhoneInputs == {P1, P2, ShortPhone, Undefined}
NameInputs == {<<"A">>, <<"B">>, <<>>, NonString}
DishInputs == {<<"d">>, <<" ">>, <<>>, Undefined}

(* "!" stands for the fixed refusal message of the guarded prompt. *)
Refusal == <<"!">>
CategorizeOutcomes == {<<" ", "V", " ">>, <<" ">>, ModelThrows}
GenerateOutcomes == {<<" ", "V", " ">>, <<>>, Refusal, ModelThrows}

(* Requests an address has already made in the current window *)
PriorHits == {0, max - 1}

------------------------------------------------------------------------------
(* Records *)

NoTok == [id |-> 0, phone |-> Undefined, name |-> Undefined, exp |-> 0]
NoAuth == [kind |-> "none", sig |-> "good", tok |-> NoTok]
NoUser == [id |-> 0, name |-> Undefined, phone |-> Undefined]
NoOut == [recipe |-> Undefined, category |-> Undefined, token |-> NoTok,
          list |-> <<>>]

(* graphState defaults: every channel starts as null. *)
EmptyState == [dish_name |-> Null, category |-> Null, recipe |-> Null]

Idle ==
    [pc |-> "idle", route |-> "none", addr |-> "ip1", at |-> 0, rate |-> 0,
     auth |-> NoAuth, claims |-> NoTok,
     name |-> Undefined, phone |-> Undefined, dish |-> Undefined,
     user |-> NoUser, st |-> EmptyState,
     trail |-> <<>>, got |-> <<>>, saved |-> <<>>,
     status |-> 0, out |-> NoOut]

(* A forged token: well-formed claims signed with another secret. *)
Forged(t) == [id |-> 7, phone |-> P1, name |-> <<"A">>, exp |-> t + expiresInMin]

AuthChoices ==
    {NoAuth,
     [kind |-> "noscheme", sig |-> "good", tok |-> NoTok],
     [kind |-> "bearer", sig |-> "bad", tok |-> Forged(now)]}
    \cup {[kind |-> "bearer", sig |-> "good", tok |-> t] : t \in issued}

------------------------------------------------------------------------------
(* Helpers shared by the handlers *)

Visit(r, what) == [r EXCEPT !.trail = Append(@, what)]

(* res.status(code).json(body): the request is finished. *)
Reply(r, code, body) == [r EXCEPT !.pc = "done", !.status = code, !.out = body]

ReplyError(r, code) == Reply(r, code, NoOut)

(* Channel reducer of graphState: value: (x, y) => y ? y : x *)
Merge(x, y) == IF Truthy(y) THEN y ELSE x

(* Faulty variants of VerifyFails: the expiry is not checked; the token is
   decoded without checking its signature. *)
VerifyIgnoresExpiry(auth) == auth.sig # "good"
VerifyIgnoresSignature(auth) == now >= auth.tok.exp

(* jwt.verify(token, JWT_SECRET, cb): err on a bad signature or an expired token *)
VerifyFails(auth) == auth.sig # "good" \/ now >= auth.tok.exp

(* jwt.sign({id, phone, name}, JWT_SECRET, {expiresIn: '2h'}) *)
Sign(u) == [id |-> u.id, phone |-> u.phone, name |-> u.name,
            exp |-> now + expiresInMin]

(* Faulty variant of UniqueOk: the collection has no unique index. *)
UniqueOkNoIndex(u) == TRUE

(* The unique index on User.phone: an insert of a second phone is refused. *)
UniqueOk(u) == \A v \in users : v.phone # u.phone

(* RequestModel.find({ userPhone: phone }) *)
RECURSIVE FilterByOwner(_, _)
FilterByOwner(rs, phone) ==
    IF rs = <<>> THEN <<>>
    ELSE IF Head(rs).userPhone = phone
         THEN <<Head(rs)>> \o FilterByOwner(Tail(rs), phone)
         ELSE FilterByOwner(Tail(rs), phone)

(* .sort({ createdAt: -1 }): newest first *)
RECURSIVE SortDesc(_)
SortDesc(rs) ==
    IF rs = <<>> THEN <<>>
    ELSE SortDesc(Tail(rs)) \o <<Head(rs)>>

(* .limit(k) *)
Limit(rs, k) == IF Len(rs) <= k THEN rs ELSE SubSeq(rs, 1, k)

(* express-rate-limit, memory store: one counter per address and window *)
WindowOver(a) == now >= resetTime[a]
HitsAfter(a) == IF WindowOver(a) THEN 1 ELSE hits[a] + 1
ResetAfter(a) == IF WindowOver(a) THEN now + windowMin ELSE resetTime[a]
Limited(a) == HitsAfter(a) > max

------------------------------------------------------------------------------
(* Route handlers, up to their first await *)

(* app.post('/api/login'): input validation *)
LoginHandler(r) ==
    LET h == Visit(r, "handler") IN
    IF \/ ~Truthy(h.name) \/ ~Truthy(h.phone)
       \/ ~IsString(h.name) \/ ~IsString(h.phone)
    THEN ReplyError(h, 400)
    ELSE IF ~isValidPhone(h.phone) THEN ReplyError(h, 400)
    ELSE [h EXCEPT !.pc = "findOne"]

(* app.post('/api/get-recipe'): if (!dish) 400, else appGraph.invoke *)
RecipeHandler(r, first) ==
    LET h == Visit(r, "handler") IN
    IF ~Truthy(h.dish) THEN ReplyError(h, 400)
    ELSE [h EXCEPT !.pc = first,
                   !.st = [EmptyState EXCEPT
                             !.dish_name = Merge(EmptyState.dish_name, h.dish)]]

(* app.get('/api/history') *)
HistoryHandler(r) == [Visit(r, "handler") EXCEPT !.pc = "query"]

Handler(r) ==
    CASE r.route = "login" -> LoginHandler(r)
      [] r.route = "recipe" ->
            RecipeHandler(r, IF variant = "twoStage" THEN "categorize"
                             ELSE "generate")
      [] r.route = "history" -> HistoryHandler(r)

(* authenticateToken *)
authenticateToken(r) ==
    LET a == Visit(r, "auth") IN
    IF a.auth.kind # "bearer" THEN ReplyError(a, 401)
    ELSE IF VerifyFails(a.auth) THEN ReplyError(a, 403)
    ELSE Handler([a EXCEPT !.claims = a.auth.tok])

(* The route's own middleware list *)
Route(r) ==
    IF variant = "guarded" /\ r.route \in {"recipe", "history"}
    THEN authenticateToken(r)
    ELSE Handler(r)

(* Faulty variant of apiLimiter: the limiter is mounted after the routes'
   own middleware, so it only sees requests nothing has answered yet. *)
apiLimiterMountedLast(r) ==
    LET l == Route(r) IN
    IF l.pc = "done" THEN l
    ELSE IF Limited(r.addr) THEN ReplyError(Visit(l, "limiter"), 429)
    ELSE Visit(l, "limiter")

(* app.use('/api/', apiLimiter) runs before every route of the guarded server *)
apiLimiter(r) ==
    LET l == Visit(r, "limiter") IN
    IF Limited(r.addr) THEN ReplyError(l, 429) ELSE Route(l)

Chain(r) == IF variant = "guarded" THEN apiLimiter(r) ELSE Route(r)

------------------------------------------------------------------------------
(* Actions *)

Receive(s, r) ==
    /\ req[s].pc \in {"idle", "done"}
    /\ started' = started + 1
    /\ req' = [req EXCEPT ![s] =
                 Chain([r EXCEPT !.at = now,
                                 !.rate = IF variant = "guarded"
                                          THEN HitsAfter(r.addr) ELSE 0])]
    /\ IF variant = "guarded"
       THEN /\ hits' = [hits EXCEPT ![r.addr] = HitsAfter(r.addr)]
            /\ resetTime' = [resetTime EXCEPT ![r.addr] = ResetAfter(r.addr)]
       ELSE UNCHANGED <<hits, resetTime>>
    /\ UNCHANGED <<variant, users, requests, now, ticks, issued, nextId>>

ArriveLogin(s, a, name, phone) ==
    /\ variant = "guarded"
    /\ Receive(s, [Idle EXCEPT !.route = "login", !.addr = a,
                               !.name = name, !.phone = phone])

ArriveRecipe(s, a, auth, dish) ==
    /\ variant = "twoStage" => (auth = NoAuth /\ a = "ip1")
    /\ Receive(s, [Idle EXCEPT !.route = "recipe", !.addr = a,
                               !.auth = auth, !.dish = dish])

ArriveHistory(s, a, auth) ==
    /\ variant = "twoStage" => (auth = NoAuth /\ a = "ip1")
    /\ Receive(s, [Idle EXCEPT !.route = "history", !.addr = a,
                               !.auth = auth])

(* Login continues after `await UserModel.findOne({ phone })` *)
FindOne(s, ok) ==
    LET r == Visit(req[s], "findOne")
        found == {u \in users : u.phone = r.phone}
    IN
    /\ req[s].pc = "findOne"
    /\ IF ~ok
       THEN /\ req' = [req EXCEPT ![s] = ReplyError(r, 500)]
            /\ UNCHANGED <<issued, nextId>>
       ELSE IF found # {}
       THEN LET u == CHOOSE u \in found : TRUE
                t == Sign(u)
            IN /\ req' = [req EXCEPT ![s] =
                            Reply([r EXCEPT !.user = u], 200,
                                  [NoOut EXCEPT !.token = t])]
               /\ issued' = issued \cup {t}
               /\ UNCHANGED nextId
       ELSE /\ req' = [req EXCEPT ![s] =
                         [r EXCEPT !.pc = "save",
                                   !.user = [id |-> nextId, name |-> r.name,
                                             phone |-> r.phone]]]
            /\ nextId' = nextId + 1
            /\ UNCHANGED issued
    /\ UNCHANGED <<variant, users, requests, hits, resetTime, now, ticks,
                   started>>

(* Login continues after `await user.save()` *)
Save(s, ok) ==
    LET r == Visit(req[s], "save")
        t == Sign(r.user)
    IN
    /\ req[s].pc = "save"
    /\ IF ok /\ UniqueOk(r.user)
       THEN /\ users' = users \cup {r.user}
            /\ issued' = issued \cup {t}
            /\ req' = [req EXCEPT ![s] =
                         Reply(r, 200, [NoOut EXCEPT !.token = t])]
       ELSE /\ req' = [req EXCEPT ![s] = ReplyError(r, 500)]
            /\ UNCHANGED <<users, issued>>
    /\ UNCHANGED <<variant, requests, hits, resetTime, now, ticks, nextId,
                   started>>

(* Faulty variant of AfterCategorize: the node catches the model's error and
   returns no update, so the graph goes on to generate_recipe. *)
AfterCategorizeSwallows(r, content) ==
    IF content = ModelThrows THEN [r EXCEPT !.pc = "generate"]
    ELSE [r EXCEPT !.pc = "generate", !.st.category = Merge(@, Trim(content))]

(* Faulty variant of AfterGenerate: the recipe text is trimmed. *)
AfterGenerateTrims(r, content) ==
    IF content = ModelThrows THEN ReplyError(r, 500)
    ELSE [r EXCEPT !.pc = "persist", !.st.recipe = Merge(@, Trim(content))]

(* categorizationNode returns { category: response.content.trim() }, merged
   into the state; a rejected llm.invoke rejects appGraph.invoke and the
   handler's catch answers 500. *)
AfterCategorize(r, content) ==
    IF content = ModelThrows THEN ReplyError(r, 500)
    ELSE [r EXCEPT !.pc = "generate", !.st.category = Merge(@, Trim(content))]

(* recipeNode returns { recipe: response.content }, merged into the state *)
AfterGenerate(r, content) ==
    IF content = ModelThrows THEN ReplyError(r, 500)
    ELSE [r EXCEPT !.pc = "persist", !.st.recipe = Merge(@, content)]

(* categorizationNode, after `await llm.invoke` *)
Categorize(s, content) ==
    LET r == [Visit(req[s], "categorize") EXCEPT !.got = Append(@, content)] IN
    /\ req[s].pc = "categorize"
    /\ req' = [req EXCEPT ![s] = AfterCategorize(r, content)]
    /\ UNCHANGED <<variant, users, requests, hits, resetTime, now, ticks,
                   issued, nextId, started>>

(* recipeNode, after `await llm.invoke`; then the handler builds the record *)
Generate(s, content) ==
    LET r == [Visit(req[s], "generate") EXCEPT !.got = Append(@, content)] IN
    /\ req[s].pc = "generate"
    /\ req' = [req EXCEPT ![s] = AfterGenerate(r, content)]
    /\ UNCHANGED <<variant, users, requests, hits, resetTime, now, ticks,
                   issued, nextId, started>>

(* "G" stands for the category label "Gourmet". *)
Gourmet == <<"G">>

(* new RequestModel({...}) of each revision *)
NewRequest(r) ==
    IF variant = "guarded"
    THEN [userPhone |-> r.claims.phone, dishName |-> r.dish,
          category |-> Gourmet, recipe |-> r.st.recipe,
          ownerKnown |-> \E u \in users : u.phone = r.claims.phone]
    ELSE [userPhone |-> Undefined, dishName |-> r.st.dish_name,
          category |-> r.st.category, recipe |-> r.st.recipe,
          ownerKnown |-> FALSE]

(* The JSON body of a successful recipe response *)
RecipeBody(r) ==
    IF variant = "guarded"
    THEN [NoOut EXCEPT !.recipe = r.st.recipe]
    ELSE [NoOut EXCEPT !.recipe = r.st.recipe, !.category = r.st.category]

(* Recipe continues after `await newRequest.save()` *)
Persist(s, ok) ==
    LET r == Visit(req[s], "persist") IN
    /\ req[s].pc = "persist"
    /\ IF ok
       THEN /\ requests' = Append(requests, NewRequest(r))
            /\ req' = [req EXCEPT ![s] =
                         Reply([r EXCEPT !.saved = Append(@, NewRequest(r))],
                               200, RecipeBody(r))]
       ELSE /\ req' = [req EXCEPT ![s] = ReplyError(r, 500)]
            /\ UNCHANGED requests
    /\ UNCHANGED <<variant, users, hits, resetTime, now, ticks, issued,
                   nextId, started>>

(* Faulty variant of HistoryQuery: the query is not scoped by the caller. *)
HistoryQueryUnscoped(r) == Limit(SortDesc(requests), historyLimit)

(* The history query of each revision *)
HistoryQuery(r) ==
    IF variant = "guarded"
    THEN SortDesc(FilterByOwner(requests, r.claims.phone))
    ELSE Limit(SortDesc(requests), historyLimit)

(* History continues after `await RequestModel.find(...)` *)
Query(s, ok) ==
    LET r == Visit(req[s], "query") IN
    /\ req[s].pc = "query"
    /\ req' = [req EXCEPT ![s] =
                 IF ok THEN Reply(r, 200, [NoOut EXCEPT !.list = HistoryQuery(r)])
                 ELSE ReplyError(r, 500)]
    /\ UNCHANGED <<variant, users, requests, hits, resetTime, now, ticks,
                   issued, nextId, started>>

(* Time passes: d minutes *)
Tick(d) ==
    /\ ticks < MaxTicks
    /\ now' = now + d
    /\ ticks' = ticks + 1
    /\ UNCHANGED <<variant, users, requests, hits, resetTime, issued, nextId,
                   started, req>>

------------------------------------------------------------------------------
(* Specifications *)

Init ==
    /\ variant \in {"guarded", "twoStage"}
    /\ users = {}
    /\ requests = <<>>
    /\ hits = [a \in Addrs |-> 0]
    /\ resetTime = [a \in Addrs |-> 0]
    /\ now = 0
    /\ ticks = 0
    /\ issued = {}
    /\ nextId = 1
    /\ started = 0
    /\ req = [s \in Slots |-> Idle]

IssuedAuth == {[kind |-> "bearer", sig |-> "good", tok |-> t] : t \in issued}

(* Logins only: concurrent and repeated logins against the User collection. *)
InitLogin == Init /\ variant = "guarded"

NextLogin ==
    \/ /\ started < MaxLogins
       /\ \E s \in Slots, name \in NameInputs, phone \in PhoneInputs :
             ArriveLogin(s, "ip1", name, phone)
    \/ \E s \in Slots, ok \in BOOLEAN : FindOne(s, ok)
    \/ \E s \in Slots, ok \in BOOLEAN : Save(s, ok)

SpecLogin == InitLogin /\ [][NextLogin]_vars

(* Recipe runs of both revisions, with every model outcome. *)
NextPipeline ==
    \/ /\ started < 1
       /\ \E s \in Slots : ArriveLogin(s, "ip1", <<"A">>, P1)
    \/ \E s \in Slots : FindOne(s, TRUE)
    \/ \E s \in Slots : Save(s, TRUE)
    \/ /\ started < MaxRuns
       /\ \E s \in Slots, auth \in IssuedAuth \cup {NoAuth}, dish \in DishInputs :
             ArriveRecipe(s, "ip1", auth, dish)
    \/ \E s \in Slots, content \in CategorizeOutcomes : Categorize(s, content)
    \/ \E s \in Slots, content \in GenerateOutcomes : Generate(s, content)
    \/ \E s \in Slots, ok \in BOOLEAN : Persist(s, ok)

SpecPipeline == Init /\ [][NextPipeline]_vars

(* Protected routes: tokens of two users, forged and expired tokens.  The
   requests are served one after the other. *)
InitAccess == Init /\ variant = "guarded"

NextAccess ==
    \/ /\ started < MaxCalls
       /\ \E s \in {1}, phone \in {P1, P2} : ArriveLogin(s, "ip1", <<"A">>, phone)
    \/ \E s \in {1} : FindOne(s, TRUE)
    \/ \E s \in {1}, ok \in BOOLEAN : Save(s, ok)
    \/ /\ started < MaxCalls
       /\ \E s \in {1}, auth \in AuthChoices : ArriveRecipe(s, "ip1", auth, <<"d">>)
    \/ \E s \in {1} : Generate(s, <<" ", "V", " ">>)
    \/ \E s \in {1} : Persist(s, TRUE)
    \/ /\ started < MaxCalls
       /\ \E s \in {1}, auth \in AuthChoices : ArriveHistory(s, "ip1", auth)
    \/ \E s \in {1}, ok \in BOOLEAN : Query(s, ok)
    \/ Tick(expiresInMin)

SpecAccess == InitAccess /\ [][NextAccess]_vars

(* The rate limiter: addresses that are close to the maximum of the window
   (max - 1 earlier requests, e.g. logins refused with 400, leave the rest of
   the state as it is after start-up).  The requests are served one after the
   other. *)
InitLimiter ==
    /\ variant = "guarded"
    /\ users = {}
    /\ requests = <<>>
    /\ hits \in [Addrs -> PriorHits]
    /\ resetTime = [a \in Addrs |-> IF hits[a] > 0 THEN windowMin ELSE 0]
    /\ now = 0
    /\ ticks = 0
    /\ issued = {}
    /\ nextId = 1
    /\ started = 0
    /\ req = [s \in Slots |-> Idle]

NextLimiter ==
    \/ /\ started < MaxBurst
       /\ \E s \in {1}, a \in Addrs : ArriveLogin(s, a, <<"A">>, P1)
    \/ \E s \in {1} : FindOne(s, TRUE)
    \/ \E s \in {1} : Save(s, TRUE)
    \/ /\ started < MaxBurst
       /\ \E s \in {1}, a \in Addrs, auth \in AuthChoices :
             ArriveRecipe(s, a, auth, <<"d">>)
    \/ \E s \in {1} : Generate(s, <<" ", "V", " ">>)
    \/ \E s \in {1} : Persist(s, TRUE)
    \/ /\ started < MaxBurst
       /\ \E s \in {1}, a \in Addrs, auth \in AuthChoices :
             ArriveHistory(s, a, auth)
    \/ \E s \in {1} : Query(s, TRUE)
    \/ Tick(windowMin)

SpecLimiter == InitLimiter /\ [][NextLimiter]_vars

------------------------------------------------------------------------------
(* Properties *)

Protected(r) == variant = "guarded" /\ r.route \in {"recipe", "history"}
HasThrow(r) == \E i \in 1..Len(r.got) : r.got[i] = ModelThrows
Visited(r, what) == \E i \in 1..Len(r.trail) : r.trail[i] = what
InStore(rec) == \E i \in 1..Len(requests) : requests[i] = rec
Stages == IF variant = "twoStage" THEN 2 ELSE 1
IsBlank(d) == ~IsString(d) \/ Trim(d) = <<>>
Expired(r) == r.at >= r.auth.tok.exp

(* C1: the store holds at most one User per phone, and every successful login
   for a phone returns a token carrying the id of that one User, whatever
   name was supplied and however the logins interleave. *)
C1_OneUserPerPhone ==
    /\ \A u, v \in users : u.phone = v.phone => u = v
    /\ \A t1, t2 \in issued : t1.phone = t2.phone => t1.id = t2.id
    /\ \A s \in Slots :
          (req[s].route = "login" /\ req[s].status = 200) =>
             /\ req[s].out.token \in issued
             /\ req[s].out.token.phone = req[s].phone
             /\ \E u \in users : /\ u.phone = req[s].phone
                                 /\ u.id = req[s].out.token.id

(* Two concurrent first logins of one phone with different names: both found
   no User, one saved its User and got a token, the other's save was refused. *)
C1_Witness ==
    \E s1, s2 \in Slots :
       /\ s1 # s2
       /\ req[s1].route = "login" /\ req[s2].route = "login"
       /\ req[s1].phone = req[s2].phone
       /\ req[s1].name # req[s2].name
       /\ Visited(req[s1], "save") /\ req[s1].status = 200
       /\ Visited(req[s2], "save") /\ req[s2].status = 500
       /\ req[s1].user.id # req[s2].user.id
       /\ req[s1].user \in users

(* C2: a Model Client failure aborts the recipe run: nothing is invoked after
   the failing call (a failed categorize is never followed by generate), the
   request writes no record and ends with 500; and a request writes a record
   only after every stage of its pipeline returned without failing. *)
C2_FailureAborts ==
    \A s \in Slots :
       LET r == req[s] IN
       r.route = "recipe" =>
          /\ HasThrow(r) =>
                /\ r.pc = "done" /\ r.status = 500
                /\ r.saved = <<>>
                /\ \A i \in 1..Len(r.got) : r.got[i] = ModelThrows => i = Len(r.got)
                /\ ~Visited(r, "persist")
                /\ (variant = "twoStage" /\ r.got[1] = ModelThrows)
                      => ~Visited(r, "generate")
          /\ r.saved # <<>> => (~HasThrow(r) /\ Len(r.got) = Stages)
          /\ Visited(r, "persist") => (~HasThrow(r) /\ Len(r.got) = Stages)

(* A two-stage run whose categorize call failed, answered with 500 *)
C2_Witness ==
    \E s \in Slots :
       /\ variant = "twoStage"
       /\ req[s].route = "recipe"
       /\ req[s].got = <<ModelThrows>>
       /\ req[s].trail = <<"handler", "categorize">>
       /\ req[s].status = 500

(* C3: a recipe request whose dish is missing or blank (absent, empty or
   whitespace-only) is answered with 400, without a Model Client call and
   without a record. *)
C3_BlankDishRejected ==
    \A s \in Slots :
       LET r == req[s] IN
       (r.route = "recipe" /\ Visited(r, "handler") /\ IsBlank(r.dish)) =>
          /\ r.pc = "done" /\ r.status = 400
          /\ r.got = <<>>
          /\ r.saved = <<>>

(* C4: every successful two-stage run calls the Model Client exactly twice,
   categorize before generate, and answers with category equal to the trimmed
   categorize response and recipe equal to the generate response. *)
C4_TwoStageResult ==
    \A s \in Slots :
       LET r == req[s] IN
       (variant = "twoStage" /\ r.route = "recipe" /\ r.status = 200) =>
          /\ Len(r.got) = 2
          /\ r.trail = <<"handler", "categorize", "generate", "persist">>
          /\ r.out.category = Trim(r.got[1])
          /\ r.out.recipe = r.got[2]

(* C5: a history response to a caller with a valid token lists only records
   whose owner phone is the phone in the caller's token. *)
C5_HistoryScoped ==
    \A s \in Slots :
       LET r == req[s] IN
       (variant = "guarded" /\ r.route = "history" /\ r.status = 200) =>
          \A i \in 1..Len(r.out.list) :
             r.out.list[i].userPhone = r.auth.tok.phone

(* A non-empty history answered while the store holds another owner's record *)
C5_Witness ==
    \E s \in Slots :
       /\ variant = "guarded"
       /\ req[s].route = "history" /\ req[s].status = 200
       /\ req[s].out.list # <<>>
       /\ \E i \in 1..Len(requests) :
             requests[i].userPhone # req[s].auth.tok.phone

(* C6: on a protected route a request without a token gets 401, a request
   whose token has a bad signature or is expired gets 403, and in both cases
   the chain stops at the auth check: no handler, no store or model call. *)
C6_AuthRejects ==
    \A s \in Slots :
       LET r == req[s]
           stopped == /\ r.pc = "done"
                      /\ r.trail = <<"limiter", "auth">>
                      /\ r.got = <<>> /\ r.saved = <<>>
       IN
       (Protected(r) /\ Visited(r, "auth")) =>
          /\ r.auth.kind # "bearer" => (r.status = 401 /\ stopped)
          /\ (r.auth.kind = "bearer" /\ (r.auth.sig # "good" \/ Expired(r)))
                => (r.status = 403 /\ stopped)
          /\ r.status \in {401, 403} => stopped

(* A token issued by a login, presented after its expiry and refused with 403 *)
C6_Witness ==
    \E s \in Slots :
       /\ Protected(req[s])
       /\ req[s].auth.kind = "bearer" /\ req[s].auth.sig = "good"
       /\ req[s].auth.tok \in issued
       /\ Expired(req[s])
       /\ req[s].status = 403

(* C7: the rate limiter runs first, the auth check before the handler; a
   request that finds its address above the maximum of the current window
   gets the rate-limit response and nothing else is invoked for it. *)
C7_LimiterFirst ==
    \A s \in Slots :
       LET r == req[s] IN
       r.pc # "idle" =>
          /\ r.trail[1] = "limiter"
          /\ r.rate > max =>
                /\ r.pc = "done" /\ r.status = 429
                /\ r.trail = <<"limiter">>
                /\ r.got = <<>> /\ r.saved = <<>>
          /\ (Protected(r) /\ Visited(r, "handler")) =>
                (r.trail[2] = "auth" /\ r.trail[3] = "handler")

(* A request with a valid token from an address that had already exceeded the
   maximum in this window, answered with the rate-limit response *)
C7_Witness ==
    \E s \in Slots :
       /\ req[s].rate = max + 2
       /\ req[s].route = "recipe"
       /\ req[s].auth \in IssuedAuth
       /\ ~Expired(req[s])
       /\ req[s].status = 429

(* C8 as stated: in the guarded variant whatever text the Model Client returns
   without failing, the empty text included, is answered verbatim as recipe
   with 200, and exactly one record with that recipe, the caller's phone and
   category Gourmet has been persisted when the response is sent (a failed
   save of the record, answered with 500, is not held against the claim). *)
C8_AnyTextPersisted ==
    \A s \in Slots :
       LET r == req[s] IN
       (/\ variant = "guarded" /\ r.route = "recipe" /\ r.pc = "done"
        /\ Len(r.got) = 1 /\ ~HasThrow(r)) =>
          /\ r.status \in {200, 500}
          /\ r.status = 500 => r.saved = <<>>
          /\ r.status = 200 =>
                /\ r.out.recipe = r.got[1]
                /\ Len(r.saved) = 1
                /\ r.saved[1].recipe = r.got[1]
                /\ r.saved[1].userPhone = r.auth.tok.phone
                /\ r.saved[1].category = Gourmet
                /\ InStore(r.saved[1])

(* C8 amended: in the guarded variant whatever non-empty text the Model Client
   returns without failing (the refusal string included): if the record is
   saved the response is 200 with that text verbatim as recipe, and exactly one
   record with that recipe, the caller's phone and category Gourmet has been
   persisted when the response is sent; if the save fails the response is 500
   and the request persisted nothing. *)
C8_NonEmptyTextPersisted ==
    \A s \in Slots :
       LET r == req[s] IN
       (/\ variant = "guarded" /\ r.route = "recipe" /\ r.pc = "done"
        /\ Len(r.got) = 1 /\ ~HasThrow(r) /\ r.got[1] # <<>>) =>
          /\ r.status \in {200, 500}
          /\ r.status = 500 => r.saved = <<>>
          /\ r.status = 200 =>
                /\ r.out.recipe = r.got[1]
                /\ Len(r.saved) = 1
                /\ r.saved[1].recipe = r.got[1]
                /\ r.saved[1].userPhone = r.auth.tok.phone
                /\ r.saved[1].category = Gourmet
                /\ InStore(r.saved[1])

(* The model refused; the refusal was answered with 200 and persisted *)
C8_Witness ==
    \E s \in Slots :
       /\ variant = "guarded"
       /\ req[s].route = "recipe" /\ req[s].status = 200
       /\ req[s].got = <<Refusal>>
       /\ req[s].out.recipe = Refusal
       /\ Len(req[s].saved) = 1 /\ InStore(req[s].saved[1])

(* C9: every persisted record has a non-null recipe. *)
C9_RecipeNonNull ==
    \A i \in 1..Len(requests) : requests[i].recipe \notin {Null, Undefined}

(* C10: in the guarded variant the owner phone of every persisted record is
   the phone of a User that was in the store when the record was created
   (and still is). *)
C10_OwnerIsUser ==
    variant = "guarded" =>
       \A i \in 1..Len(requests) :
          /\ requests[i].ownerKnown
          /\ \E u \in users : u.phone = requests[i].userPhone

(* A record persisted for a caller who logged in *)
C10_Witness ==
    \E s \in Slots :
       /\ variant = "guarded"
       /\ req[s].route = "recipe" /\ req[s].status = 200
       /\ Len(req[s].saved) = 1 /\ InStore(req[s].saved[1])
       /\ req[s].auth.tok \in issued

====
